---- MODULE Spec2Model ----
(***************************************************************************)
(* Model of converter_p3.py: conversion of JUnit / Google Test XML reports *)
(* into the Sonar generic test execution report.                          *)
(*                                                                         *)
(* Python str values are sequences of one-character strings, so that the  *)
(* regular expression, str.strip, str.format and float() are computed     *)
(* character by character.  Python's None, the exceptions and the objects *)
(* a variable may hold in place of a str or of None (a match, a float, a  *)
(* TestMsg, an enum member) are tuples that start with the name of their  *)
(* type, which is no character.                                           *)
(***************************************************************************)
EXTENDS Integers, Sequences, FiniteSets, TLC

VARIABLES
    pc,                       \* position of the __main__ script
    args,                     \* parsed command line (argparse namespace)
    test_name_to_source_name, \* doParseSrcFolder's dict, in insertion order
    sonarTestExcutions,       \* parse()'s aggregated dict, in insertion order
    output,                   \* document written to args.output, or None
    scanned,                  \* history: source files read by doParseSrcFolder
    visited                   \* history: report files handed to doParse

vars == <<pc, args, test_name_to_source_name, sonarTestExcutions, output,
          scanned, visited>>

-----------------------------------------------------------------------------
(* Bounds of the model.                                                    *)

MaxReportFiles == 2
MaxSrcFiles == 2

-----------------------------------------------------------------------------
(* Python values.                                                          *)

None == <<"NoneType">>

\* '{0}'.format(x): None is rendered as the four characters None.
Str(x) == IF x = None THEN <<"N", "o", "n", "e">> ELSE x

\* '{0}.{1}'.format(a, b)
FormatName(a, b) == Str(a) \o <<".">> \o Str(b)

IsSpace(ch) == ch \in {" ", "\t", "\n", "\r"}

RECURSIVE LStrip(_)
LStrip(s) == IF s # <<>> /\ IsSpace(Head(s)) THEN LStrip(Tail(s)) ELSE s

RECURSIVE RStrip(_)
RStrip(s) ==
    IF s # <<>> /\ IsSpace(s[Len(s)]) THEN RStrip(SubSeq(s, 1, Len(s) - 1)) ELSE s

\* str.strip()
Strip(s) == RStrip(LStrip(s))

-----------------------------------------------------------------------------
(* GTEST_RE = re.compile(r'TEST.*\((.+),(.+)\)') and GTEST_RE.search.      *)

\* '.' matches every character but the newline.
Dot(ch) == ch # "\n"

AllDot(line, from, to) == \A k \in from..to : Dot(line[k])

Max(S) == CHOOSE x \in S : \A y \in S : y <= x
Min(S) == CHOOSE x \in S : \A y \in S : x <= y

\* positions r of the closing '\)' after the second group (c+1 .. r-1)
CloseAt(line, c) ==
    {r \in (c + 2)..Len(line) : line[r] = ")" /\ AllDot(line, c + 1, r - 1)}

\* positions c of the ',' after the first group (p+1 .. c-1)
CommaAt(line, p) ==
    {c \in (p + 2)..Len(line) :
        line[c] = "," /\ AllDot(line, p + 1, c - 1) /\ CloseAt(line, c) # {}}

\* positions p of the '\(' after 'TEST.*', the literal TEST starting at i
OpenAt(line, i) ==
    {p \in (i + 4)..Len(line) :
        line[p] = "(" /\ AllDot(line, i + 4, p - 1) /\ CommaAt(line, p) # {}}

\* start positions of a match, GTEST_RE.search takes the leftmost
MatchStarts(line) ==
    {i \in 1..(Len(line) - 3) :
        SubSeq(line, i, i + 3) = <<"T", "E", "S", "T">> /\ OpenAt(line, i) # {}}

\* The match object: None, or the two groups.  Every quantifier is greedy:
\* '.*' ends at the last '(' that lets the rest match, the first '.+' at the
\* last ',' that does, the second '.+' at the last ')'.
GTEST_RE_search(line) ==
    IF MatchStarts(line) = {} THEN None
    ELSE LET i == Min(MatchStarts(line))
             p == Max(OpenAt(line, i))
             c == Max(CommaAt(line, p))
             r == Max(CloseAt(line, c))
         IN  <<"Match", SubSeq(line, p + 1, c - 1), SubSeq(line, c + 1, r - 1)>>

\* match.group(k)
group(match, k) == match[k + 1]

-----------------------------------------------------------------------------
(* Exceptions: values no computation returns normally.                     *)

TypeError == <<"TypeError">>
ValueError == <<"ValueError">>
AttributeError == <<"AttributeError">>
XMLSyntaxError == <<"XMLSyntaxError">>

Exceptions == {TypeError, ValueError, AttributeError, XMLSyntaxError}

\* The outcome of a call whose value is no str: the exception it raised
\* (None when it returned) and the value it returned.
Return(value) == [exc |-> None, value |-> value]
Raise(exc) == [exc |-> exc, value |-> <<>>]

-----------------------------------------------------------------------------
(* str(int(float(t) * 1000)) for the decimal literals [sign] digits        *)
(* [ . digits ].  The product is computed in exact decimal arithmetic; the *)
(* time values below are ones whose binary floating point product is the   *)
(* same integer.                                                           *)

Digits == <<"0", "1", "2", "3", "4", "5", "6", "7", "8", "9">>

IsDigit(ch) == \E k \in 1..10 : Digits[k] = ch

DigitVal(ch) == (CHOOSE k \in 1..10 : Digits[k] = ch) - 1

RECURSIVE DigitsVal(_)
DigitsVal(ds) ==
    IF ds = <<>> THEN 0
    ELSE 10 * DigitsVal(SubSeq(ds, 1, Len(ds) - 1)) + DigitVal(ds[Len(ds)])

\* position of the first '.', or Len(s) + 1
DotPos(s) == Min({k \in 1..Len(s) : s[k] = "."} \cup {Len(s) + 1})

\* float(x): TypeError for None, ValueError for what is no decimal literal,
\* else the number as sign, integer digits and fraction digits.
float(x) ==
    IF x = None THEN TypeError
    ELSE LET neg == x # <<>> /\ Head(x) = "-"
             body == IF x # <<>> /\ Head(x) \in {"-", "+"} THEN Tail(x) ELSE x
             ip == SubSeq(body, 1, DotPos(body) - 1)
             fp == SubSeq(body, DotPos(body) + 1, Len(body))
         IN  IF /\ \A k \in 1..Len(ip) : IsDigit(ip[k])
                /\ \A k \in 1..Len(fp) : IsDigit(fp[k])
                /\ Len(ip) + Len(fp) > 0
             THEN <<"float", neg, ip, fp>>
             ELSE ValueError

\* int(f * 1000): the integer digits and the first three fraction digits;
\* int() truncates toward zero.
IntTimes1000(f) ==
    LET fp3 == SubSeq(f[4] \o <<"0", "0", "0">>, 1, 3)
        mag == DigitsVal(f[3]) * 1000 + DigitsVal(fp3)
    IN  IF f[2] THEN 0 - mag ELSE mag

RECURSIVE NatStr(_)
NatStr(n) ==
    IF n < 10 THEN <<Digits[n + 1]>> ELSE NatStr(n \div 10) \o <<Digits[(n % 10) + 1]>>

\* str(n) of an int
IntStr(n) == IF n < 0 THEN <<"-">> \o NatStr(0 - n) ELSE NatStr(n)

\* str(int(float(t) * 1000)), or the exception float() raises
Duration(t) ==
    IF float(t) \in Exceptions THEN float(t) ELSE IntStr(IntTimes1000(float(t)))

-----------------------------------------------------------------------------
(* dict, in insertion order: a sequence of [key, value] with distinct keys *)

HasKey(d, k) == \E i \in 1..Len(d) : d[i].key = k

DictGet(d, k) == d[CHOOSE i \in 1..Len(d) : d[i].key = k].value

\* d[k] = v
DictSet(d, k, v) ==
    IF HasKey(d, k)
    THEN [i \in 1..Len(d) |-> IF d[i].key = k THEN [key |-> k, value |-> v] ELSE d[i]]
    ELSE Append(d, [key |-> k, value |-> v])

\* d.items()
DictItems(d) == Return(d)

\* d.values()
DictValues(d) == [i \in 1..Len(d) |-> d[i].value]

\* d.iteritems(): a Python 3 dict has no such attribute
DictIterItems(d) == Raise(AttributeError)

-----------------------------------------------------------------------------
(* lxml elements: [tag, attrib, text, children]; attrib is the sequence of *)
(* <<name, value>> pairs of the element, text is None or a str.            *)

Element(tag, attrib, text, children) ==
    [tag |-> tag, attrib |-> attrib, text |-> text, children |-> children]

\* element.get(name)
AttrGet(e, name) ==
    IF \E i \in 1..Len(e.attrib) : e.attrib[i][1] = name
    THEN e.attrib[CHOOSE i \in 1..Len(e.attrib) : e.attrib[i][1] = name][2]
    ELSE None

\* the children of e with the given tag, in document order (xpath step)
ChildrenTagged(e, tag) ==
    LET idx == {i \in 1..Len(e.children) : e.children[i].tag = tag}
        RECURSIVE Pick(_)
        Pick(S) == IF S = {} THEN <<>>
                   ELSE <<e.children[Min(S)]>> \o Pick(S \ {Min(S)})
    IN  Pick(idx)

-----------------------------------------------------------------------------
(* TestMsgType, TestMsg, TestCase, SonarTestExcution                       *)

TestMsgType_failure == <<"TestMsgType", "failure">>
TestMsgType_error == <<"TestMsgType", "error">>
TestMsgType_skipped == <<"TestMsgType", "skipped">>

TestMsgType == {TestMsgType_failure, TestMsgType_error, TestMsgType_skipped}

\* test_msg_type_map
test_msg_type_map ==
    [t \in TestMsgType |-> t[2]]

MsgTags == {"skipped", "failure", "error"}

\* test_msg_tag_map
test_msg_tag_map ==
    [t \in MsgTags |-> <<"TestMsgType", t>>]

\* TestMsg.__init__: <<"TestMsg", _msg_type, _short_msg, _long_msg>>
TestMsg(type, short, long) ==
    <<"TestMsg", type,
      IF short # None THEN short ELSE <<>>,
      IF long # None THEN long ELSE <<>>>>

msg_type(m) == m[2]

\* the property returns self._msg_type
short_msg(m) == m[2]

long_msg(m) == m[4]

TestCase(name, duration, msg) == [name |-> name, duration |-> duration, msg |-> msg]

SonarTestExcution(file_path) == [file_path |-> file_path, test_cases |-> <<>>]

add_test_case(ex, test_case) == [ex EXCEPT !.test_cases = Append(@, test_case)]

add_test_cases(ex, test_cases) == [ex EXCEPT !.test_cases = @ \o test_cases]

-----------------------------------------------------------------------------
(* JUnitTestReportParser.doParseMsg                                        *)

doParseMsg(test_case_node) ==
    IF Len(test_case_node.children) > 0
    THEN IF test_case_node.children[1].tag \in DOMAIN test_msg_tag_map
         THEN TestMsg(test_msg_tag_map[test_case_node.children[1].tag],
                      AttrGet(test_case_node.children[1], "message"),
                      test_case_node.children[1].text)
         ELSE None
    ELSE None

-----------------------------------------------------------------------------
(* Report files: [matches, wellformed, root].  matches: the file name      *)
(* matches the report pattern; wellformed: etree.parse returns a tree,     *)
(* whose root element is root.                                             *)

\* The state of a doParse loop: the dict built so far and the exception
\* that ended the loop (None while none was raised).
Loop(dict, exc) == [dict |-> dict, exc |-> exc]

\* JUnitTestReportParser.doParse, the body of "for testCase in testCases"
JUnitCase(testCase, d) ==
    LET file == AttrGet(testCase, "file")
        d1 == IF ~HasKey(d, file) THEN DictSet(d, file, SonarTestExcution(file)) ELSE d
        name == FormatName(AttrGet(testCase, "classname"), AttrGet(testCase, "name"))
        duration == Duration(AttrGet(testCase, "time"))
    IN  IF duration \in Exceptions
        THEN Loop(d1, duration)
        ELSE Loop(DictSet(d1, file,
                          add_test_case(DictGet(d1, file),
                                        TestCase(name, duration, doParseMsg(testCase)))),
                  None)

RECURSIVE JUnitCases(_, _)
JUnitCases(testCases, st) ==
    IF testCases = <<>> \/ st.exc # None THEN st
    ELSE JUnitCases(Tail(testCases), JUnitCase(Head(testCases), st.dict))

\* JUnitTestReportParser.doParse up to the except clause
JUnitTry(report) ==
    IF ~report.wellformed THEN Loop(<<>>, XMLSyntaxError)
    ELSE JUnitCases(IF report.root.tag = "testsuite"
                    THEN ChildrenTagged(report.root, "testcase")
                    ELSE <<>>,
                    Loop(<<>>, None))

\* JUnitTestReportParser.doParse: the exception is printed, the dict returned
JUnitDoParse(report) == JUnitTry(report).dict

\* (variant: a test case missing from the index is kept under the key "?")
GtestCase_fallback(testCase, test_suite_name, index, d) ==
    LET testName == FormatName(test_suite_name, AttrGet(testCase, "name"))
        test_file_name == IF HasKey(index, testName) THEN DictGet(index, testName)
                          ELSE <<"?">>
        d1 == IF ~HasKey(d, test_file_name)
              THEN DictSet(d, test_file_name, SonarTestExcution(test_file_name))
              ELSE d
        duration == Duration(AttrGet(testCase, "time"))
    IN  IF duration \in Exceptions
        THEN Loop(d1, duration)
        ELSE Loop(DictSet(d1, test_file_name,
                          add_test_case(DictGet(d1, test_file_name),
                                        TestCase(testName, duration, doParseMsg(testCase)))),
                  None)

\* GoogleTestReportParser.doParse, the body of "for testCase in testCases"
GtestCase(testCase, test_suite_name, index, d) ==
    LET testName == FormatName(test_suite_name, AttrGet(testCase, "name"))
    IN  IF HasKey(index, testName)
        THEN LET test_file_name == DictGet(index, testName)
                 d1 == IF ~HasKey(d, test_file_name)
                       THEN DictSet(d, test_file_name, SonarTestExcution(test_file_name))
                       ELSE d
                 duration == Duration(AttrGet(testCase, "time"))
             IN  IF duration \in Exceptions
                 THEN Loop(d1, duration)
                 ELSE Loop(DictSet(d1, test_file_name,
                                   add_test_case(DictGet(d1, test_file_name),
                                                 TestCase(testName, duration,
                                                          doParseMsg(testCase)))),
                           None)
        ELSE Loop(d, None)

RECURSIVE GtestCases(_, _, _, _)
GtestCases(testCases, test_suite_name, index, st) ==
    IF testCases = <<>> \/ st.exc # None THEN st
    ELSE GtestCases(Tail(testCases), test_suite_name, index,
                    GtestCase(Head(testCases), test_suite_name, index, st.dict))

RECURSIVE GtestSuites(_, _, _)
GtestSuites(testSuites, index, st) ==
    IF testSuites = <<>> \/ st.exc # None THEN st
    ELSE GtestSuites(Tail(testSuites), index,
                     GtestCases(ChildrenTagged(Head(testSuites), "testcase"),
                                AttrGet(Head(testSuites), "name"), index, st))

\* GoogleTestReportParser.doParse up to the except clause
GtestTry(report, index) ==
    IF ~report.wellformed THEN Loop(<<>>, XMLSyntaxError)
    ELSE GtestSuites(IF report.root.tag = "testsuites"
                     THEN ChildrenTagged(report.root, "testsuite")
                     ELSE <<>>,
                     index, Loop(<<>>, None))

\* GoogleTestReportParser.doParse: the exception is printed, the dict returned
GtestDoParse(report, index) == GtestTry(report, index).dict

-----------------------------------------------------------------------------
(* parse(): the merge of one file's dict into the aggregated dict          *)

RECURSIVE MergeItems(_, _)
MergeItems(items, agg) ==
    IF items = <<>> THEN agg
    ELSE LET key == Head(items).key
             value == Head(items).value
             a1 == IF ~HasKey(agg, key)
                   THEN DictSet(agg, key, SonarTestExcution(key))
                   ELSE agg
         IN  MergeItems(Tail(items),
                        DictSet(a1, key, add_test_cases(DictGet(a1, key), value.test_cases)))

\* "for key, value in <items>": the exception when <items> raised one
Merge(items, agg) ==
    IF items.exc # None THEN Raise(items.exc) ELSE Return(MergeItems(items.value, agg))

-----------------------------------------------------------------------------
(* GoogleTestReportParser.doParseSrcFolder: the lines of one source file   *)

RECURSIVE ScanLines(_, _, _)
ScanLines(lines, file_path, d) ==
    IF lines = <<>> THEN d
    ELSE LET match == GTEST_RE_search(Head(lines))
         IN  ScanLines(Tail(lines), file_path,
                       IF match # None
                       THEN DictSet(d, FormatName(Strip(group(match, 1)),
                                                  Strip(group(match, 2))), file_path)
                       ELSE d)

-----------------------------------------------------------------------------
(* SonarTestExcutionsXmlSerializer.serialize                               *)

TestMsgTypeChars ==
    <<"T", "e", "s", "t", "M", "s", "g", "T", "y", "p", "e", ".">>

MemberChars ==
    [failure |-> <<"f", "a", "i", "l", "u", "r", "e">>,
     error |-> <<"e", "r", "r", "o", "r">>,
     skipped |-> <<"s", "k", "i", "p", "p", "e", "d">>]

\* str(x): an enum member prints as TestMsgType.<name>, a str is itself
str(x) == IF x \in TestMsgType THEN TestMsgTypeChars \o MemberChars[x[2]] ELSE x

\* the children of a testCase element
MsgElements(test_case) ==
    IF test_case.msg # None
    THEN <<Element(test_msg_type_map[msg_type(test_case.msg)],
                   <<<<"message", str(short_msg(test_case.msg))>>>>,
                   long_msg(test_case.msg), <<>>)>>
    ELSE <<>>

TestCaseElement(test_case) ==
    Element("testCase",
            <<<<"name", test_case.name>>, <<"duration", test_case.duration>>>>,
            None, MsgElements(test_case))

FileElement(execution) ==
    Element("file", <<<<"path", execution.file_path>>>>, None,
            [i \in 1..Len(execution.test_cases) |->
                TestCaseElement(execution.test_cases[i])])

\* etree refuses an attribute value that is None
serialize(test_executions) ==
    IF \E i \in 1..Len(test_executions) : test_executions[i].file_path = None
    THEN Raise(TypeError)
    ELSE Return(Element("testExecutions", <<<<"version", <<"1">>>>>>, None,
                        [i \in 1..Len(test_executions) |->
                            FileElement(test_executions[i])]))

-----------------------------------------------------------------------------
(* Inputs: the command line, the source tree and the report files.         *)

msg_X == <<"X">>
text_Y == <<"Y">>
suite_S == <<"S">>
suite_T == <<"T">>
name_c == <<"c">>
name_d == <<"d">>
a_c == <<"a", ".", "c">>
b_c == <<"b", ".", "c">>
Foo == <<"F", "o", "o">>
t1 == <<"t", "1">>

\* --- source files: [matches, file_path, lines]; a line is [text, arg1,
\* arg2], text what the file holds and arg1, arg2 the arguments of the test
\* declaration written on it (None when it declares no test)

Decl(macro, arg1, arg2) == macro \o <<"(">> \o arg1 \o <<",", " ">> \o arg2 \o <<")">>

SrcLine(text, arg1, arg2) == [text |-> text \o <<"\n">>, arg1 |-> arg1, arg2 |-> arg2]

TEST == <<"T", "E", "S", "T">>
TEST_F == <<"T", "E", "S", "T", "_", "F">>

l_plain == SrcLine(Decl(TEST, suite_S, name_c) \o <<" ", "{">>, suite_S, name_c)
l_fixture == SrcLine(Decl(TEST_F, suite_S, name_d) \o <<" ", "{">>, suite_S, name_d)
l_comment == SrcLine(<<"/", "/", " ">> \o Decl(TEST, suite_S, name_d), suite_S, name_d)
l_call ==
    SrcLine(Decl(TEST, suite_S, name_c) \o <<" ", "{", " ", "f", "(", ")", ";", " ", "}">>,
            suite_S, name_c)
l_call2 ==
    SrcLine(Decl(TEST, suite_S, name_d)
                \o <<" ", "{", " ", "g", "(", "a", ",", " ", "b", ")", ";", " ", "}">>,
            suite_S, name_d)
l_other == SrcLine(<<"i", "n", "t", " ", "x", ";">>, None, None)

SrcFile(matches, file_path, lines) ==
    [matches |-> matches, file_path |-> file_path, lines |-> lines]

SrcFiles ==
    { SrcFile(TRUE, a_c, <<l_other, l_plain>>),
      SrcFile(TRUE, a_c, <<l_fixture>>),
      SrcFile(TRUE, b_c, <<l_plain, l_fixture>>),
      SrcFile(TRUE, b_c, <<l_comment>>),
      SrcFile(TRUE, a_c, <<l_call>>),
      SrcFile(TRUE, b_c, <<l_call2>>),
      SrcFile(FALSE, b_c, <<l_plain>>) }

\* --- report files: [matches, wellformed, root]

ReportFile(matches, wellformed, root) ==
    [matches |-> matches, wellformed |-> wellformed, root |-> root]

NoRoot == Element("", <<>>, None, <<>>)

failure == Element("failure", <<<<"message", msg_X>>>>, text_Y, <<>>)
error == Element("error", <<<<"message", text_Y>>>>, None, <<>>)
skipped == Element("skipped", <<>>, None, <<>>)
system_out == Element("system-out", <<>>, msg_X, <<>>)

gtestcase(name, time, children) ==
    Element("testcase", <<<<"name", name>>, <<"time", time>>>>, None, children)

g_plain == gtestcase(name_c, <<"0", ".", "0", "0", "2">>, <<>>)
g_failed == gtestcase(name_d, <<"1", ".", "2", "3", "4", "5">>, <<failure>>)
g_skipped == gtestcase(name_c, <<"2">>, <<skipped, system_out>>)
g_out_first == gtestcase(name_c, <<"0", ".", "1", "2", "5">>, <<system_out, failure>>)
g_two == gtestcase(name_d, <<"0", ".", "5">>, <<error, failure>>)
g_bad_time == gtestcase(name_d, <<"a", "b", "c">>, <<>>)
g_no_time == Element("testcase", <<<<"name", name_c>>>>, None, <<>>)

testsuite(name, testCases) == Element("testsuite", <<<<"name", name>>>>, None, testCases)

testsuites(testSuites) == Element("testsuites", <<>>, None, testSuites)

GtestRoots ==
    { testsuites(<<testsuite(suite_S, <<g_plain, g_failed>>)>>),
      testsuites(<<testsuite(suite_S, <<g_failed, g_bad_time>>)>>),
      testsuites(<<testsuite(suite_S, <<g_no_time, g_failed>>)>>),
      testsuites(<<testsuite(suite_S, <<g_out_first, g_two>>)>>),
      testsuites(<<testsuite(suite_S, <<g_skipped>>), testsuite(suite_T, <<g_plain, g_failed>>)>>),
      testsuites(<<>>) }

junitcase(file, time, children) ==
    Element("testcase",
            <<<<"name", t1>>, <<"classname", Foo>>, <<"file", file>>, <<"time", time>>>>,
            None, children)

j_plain == junitcase(a_c, <<"0", ".", "1", "2", "5">>, <<>>)
j_failed == junitcase(b_c, <<"1", ".", "2", "3", "4", "5">>, <<failure>>)
j_bad_time == junitcase(a_c, <<"a", "b", "c">>, <<>>)
j_no_file ==
    Element("testcase",
            <<<<"name", t1>>, <<"classname", Foo>>, <<"time", <<"2">>>>>>, None, <<>>)

JUnitRoots ==
    { testsuite(Foo, <<j_plain>>),
      testsuite(Foo, <<j_plain, j_failed>>),
      testsuite(Foo, <<j_no_file, j_plain>>),
      testsuite(Foo, <<j_plain, j_bad_time>>) }

ReportFiles(report_type) ==
    {ReportFile(TRUE, FALSE, NoRoot), ReportFile(FALSE, FALSE, NoRoot)}
    \cup {ReportFile(TRUE, TRUE, r) :
            r \in IF report_type = "junit" THEN JUnitRoots ELSE GtestRoots}

\* --- the argparse namespace; report_type has choices junit and gtest, the
\* two gtest options default to None
Args ==
    [report_type : {"junit", "gtest"},
     gtest_src_folder : {None, <<"s", "r", "c">>},
     gtest_src_pattern : {None, <<"c", "$">>}]

-----------------------------------------------------------------------------
(* The __main__ script.  pc: main, src_walk (doParseSrcFolder's os.walk),  *)
(* gtest_walk and junit_walk (parse's os.walk), write, and the ends exit0  *)
(* (normal end), exit1 (sys.exit(1)) and crash (uncaught exception).       *)

NotOpened == [opened |-> FALSE, written |-> <<>>]
Opened(written) == [opened |-> TRUE, written |-> written]

Init ==
    /\ pc = "main"
    /\ args \in Args
    /\ test_name_to_source_name = <<>>
    /\ sonarTestExcutions = <<>>
    /\ output = NotOpened
    /\ scanned = <<>>
    /\ visited = <<>>

\* if args.report_type == 'junit': JUnitTestReportParser.parse(...)
MainJUnit ==
    /\ pc = "main"
    /\ args.report_type = "junit"
    /\ pc' = "junit_walk"
    /\ UNCHANGED <<args, test_name_to_source_name, sonarTestExcutions, output,
                   scanned, visited>>

\* args.gtest_src_folder is None or args.gtest_src_pattern is None
OptionMissing_and(a) == a.gtest_src_folder = None /\ a.gtest_src_pattern = None
OptionMissing(a) == a.gtest_src_folder = None \/ a.gtest_src_pattern = None

\* elif 'gtest', an option is None: print(...); sys.exit(1)
MainGtestOptionMissing ==
    /\ pc = "main"
    /\ args.report_type = "gtest"
    /\ OptionMissing(args)
    /\ pc' = "exit1"
    /\ UNCHANGED <<args, test_name_to_source_name, sonarTestExcutions, output,
                   scanned, visited>>

\* elif 'gtest': GoogleTestReportParser.parse(...), which starts with
\* doParseSrcFolder
MainGtest ==
    /\ pc = "main"
    /\ args.report_type = "gtest"
    /\ ~OptionMissing(args)
    /\ pc' = "src_walk"
    /\ UNCHANGED <<args, test_name_to_source_name, sonarTestExcutions, output,
                   scanned, visited>>

LineTexts(lines) == [i \in 1..Len(lines) |-> lines[i].text]

\* doParseSrcFolder: the next file of os.walk(gtest_src_folder)
SrcWalkFile(f) ==
    /\ pc = "src_walk"
    /\ Len(scanned) < MaxSrcFiles
    /\ scanned' = Append(scanned, f)
    /\ test_name_to_source_name' =
          IF f.matches
          THEN ScanLines(LineTexts(f.lines), f.file_path, test_name_to_source_name)
          ELSE test_name_to_source_name
    /\ UNCHANGED <<pc, args, sonarTestExcutions, output, visited>>

\* doParseSrcFolder returns, parse goes on to walk the report folder
SrcWalkEnd ==
    /\ pc = "src_walk"
    /\ pc' = "gtest_walk"
    /\ UNCHANGED <<args, test_name_to_source_name, sonarTestExcutions, output,
                   scanned, visited>>

\* what parse does with one file of the walk: nothing when the name does not
\* match, else doParse and the merge of its items
GtestParseFile(f, index, agg) ==
    IF f.matches THEN Merge(DictItems(GtestDoParse(f, index)), agg) ELSE Return(agg)

JUnitParseFile(f, agg) ==
    IF f.matches THEN Merge(DictIterItems(JUnitDoParse(f)), agg) ELSE Return(agg)

\* GoogleTestReportParser.parse: the next file of os.walk(searching_folder_path)
GtestWalkFile(f) ==
    /\ pc = "gtest_walk"
    /\ Len(visited) < MaxReportFiles
    /\ visited' = Append(visited, f)
    /\ LET r == GtestParseFile(f, test_name_to_source_name, sonarTestExcutions)
       IN  IF r.exc # None
           THEN pc' = "crash" /\ UNCHANGED sonarTestExcutions
           ELSE pc' = pc /\ sonarTestExcutions' = r.value
    /\ UNCHANGED <<args, test_name_to_source_name, output, scanned>>

\* GoogleTestReportParser.parse returns sonarTestExcutions.values()
GtestWalkEnd ==
    /\ pc = "gtest_walk"
    /\ pc' = "write"
    /\ UNCHANGED <<args, test_name_to_source_name, sonarTestExcutions, output,
                   scanned, visited>>

\* JUnitTestReportParser.parse: the next file of os.walk(searching_folder_path)
JUnitWalkFile(f) ==
    /\ pc = "junit_walk"
    /\ Len(visited) < MaxReportFiles
    /\ visited' = Append(visited, f)
    /\ LET r == JUnitParseFile(f, sonarTestExcutions)
       IN  IF r.exc # None
           THEN pc' = "crash" /\ UNCHANGED sonarTestExcutions
           ELSE pc' = pc /\ sonarTestExcutions' = r.value
    /\ UNCHANGED <<args, test_name_to_source_name, output, scanned>>

\* JUnitTestReportParser.parse returns sonarTestExcutions.values()
JUnitWalkEnd ==
    /\ pc = "junit_walk"
    /\ pc' = "write"
    /\ UNCHANGED <<args, test_name_to_source_name, sonarTestExcutions, output,
                   scanned, visited>>

\* with open(args.output, 'wb') as file: file.write(serialize(test_cases))
Write ==
    /\ pc = "write"
    /\ LET r == serialize(DictValues(sonarTestExcutions))
       IN  IF r.exc # None
           THEN pc' = "crash" /\ output' = Opened(<<>>)
           ELSE pc' = "exit0" /\ output' = Opened(<<r.value>>)
    /\ UNCHANGED <<args, test_name_to_source_name, sonarTestExcutions, scanned, visited>>

Next ==
    \/ MainJUnit
    \/ MainGtestOptionMissing
    \/ MainGtest
    \/ \E f \in SrcFiles : SrcWalkFile(f)
    \/ SrcWalkEnd
    \/ \E f \in ReportFiles("gtest") : GtestWalkFile(f)
    \/ GtestWalkEnd
    \/ \E f \in ReportFiles("junit") : JUnitWalkFile(f)
    \/ JUnitWalkEnd
    \/ Write

Spec == Init /\ [][Next]_vars

-----------------------------------------------------------------------------
(* What the claims speak of: the test cases a report file holds, and the   *)
(* elements of the written document.                                      *)

Ended == pc \in {"exit0", "exit1", "crash"}

RECURSIVE Flatten(_)
Flatten(seqs) == IF seqs = <<>> THEN <<>> ELSE Head(seqs) \o Flatten(Tail(seqs))

Last(seq) == seq[Len(seq)]

\* testsuites/testsuite/testcase of a Google Test report, each with its
\* qualified name '<testsuite name>.<testcase name>'
GtestEntries(f) ==
    IF f.matches /\ f.wellformed /\ f.root.tag = "testsuites"
    THEN LET suites == ChildrenTagged(f.root, "testsuite")
         IN  Flatten([i \in 1..Len(suites) |->
                 LET cases == ChildrenTagged(suites[i], "testcase")
                 IN  [j \in 1..Len(cases) |->
                        [name |-> FormatName(AttrGet(suites[i], "name"),
                                             AttrGet(cases[j], "name")),
                         node |-> cases[j]]]])
    ELSE <<>>

\* testsuite/testcase of a JUnit report, each with its name 'classname.name'
JUnitEntries(f) ==
    IF f.matches /\ f.wellformed /\ f.root.tag = "testsuite"
    THEN LET cases == ChildrenTagged(f.root, "testcase")
         IN  [j \in 1..Len(cases) |->
                [name |-> FormatName(AttrGet(cases[j], "classname"),
                                     AttrGet(cases[j], "name")),
                 node |-> cases[j]]]
    ELSE <<>>

\* a report file every time attribute of which is a number
ValidGtest(f) == f.matches /\ GtestTry(f, test_name_to_source_name).exc = None
ValidJUnit(f) == f.matches /\ JUnitTry(f).exc = None

\* the file elements of the written document
OutFiles == IF output.written = <<>> THEN <<>> ELSE output.written[1].children

\* the testCase elements written under the path p
OutCasesAt(p) ==
    Flatten([i \in 1..Len(OutFiles) |->
                IF AttrGet(OutFiles[i], "path") = p THEN OutFiles[i].children ELSE <<>>])

\* how many of the elements carry the attribute name = n
CountNamed(elems, n) == Cardinality({i \in 1..Len(elems) : AttrGet(elems[i], "name") = n})

\* the entries of the visited valid Google Test reports
ValidGtestEntries ==
    Flatten([k \in 1..Len(visited) |->
                IF ValidGtest(visited[k]) THEN GtestEntries(visited[k]) ELSE <<>>])

\* The test cases a visited report file attributes to a source file, as
\* [name, node, path]: for a Google Test report the test cases the source
\* index knows, under the path it gives; for a JUnit report every test
\* case, under its file attribute.
Attributed(f) ==
    IF args.report_type = "gtest"
    THEN LET es == GtestEntries(f)
             known == {i \in 1..Len(es) : HasKey(test_name_to_source_name, es[i].name)}
             RECURSIVE Pick(_)
             Pick(I) ==
                 IF I = {} THEN <<>>
                 ELSE <<[name |-> es[Min(I)].name, node |-> es[Min(I)].node,
                         path |-> DictGet(test_name_to_source_name, es[Min(I)].name)]>>
                      \o Pick(I \ {Min(I)})
         IN  Pick(known)
    ELSE LET es == JUnitEntries(f)
         IN  [i \in 1..Len(es) |->
                [name |-> es[i].name, node |-> es[i].node,
                 path |-> AttrGet(es[i].node, "file")]]

\* the report file was parsed without an exception
Valid(f) == IF args.report_type = "gtest" THEN ValidGtest(f) ELSE ValidJUnit(f)

\* the test cases the visited report files parsed without an exception
\* attribute to source files, in the order of the walk
AllAttributed ==
    Flatten([k \in 1..Len(visited) |->
                IF Valid(visited[k]) THEN Attributed(visited[k]) ELSE <<>>])

\* how many of them are named n and attributed to the path p
ExpectedCount(p, n) ==
    Cardinality({i \in 1..Len(AllAttributed) :
                    AllAttributed[i].path = p /\ AllAttributed[i].name = n})

\* the output holds, path by path and name by name, the test cases of the
\* report files parsed without an exception, and no other file entry
OutputIsValidReports ==
    /\ \A i \in 1..Len(AllAttributed) :
          CountNamed(OutCasesAt(AllAttributed[i].path), AllAttributed[i].name)
              = ExpectedCount(AllAttributed[i].path, AllAttributed[i].name)
    /\ \A j \in 1..Len(OutFiles) :
          /\ \E i \in 1..Len(AllAttributed) :
                AllAttributed[i].path = AttrGet(OutFiles[j], "path")
          /\ \A t \in 1..Len(OutFiles[j].children) :
                ExpectedCount(AttrGet(OutFiles[j], "path"),
                              AttrGet(OutFiles[j].children[t], "name")) >= 1

\* '' for None
OrEmpty(x) == IF x = None THEN <<>> ELSE x

\* the failure, error and skipped children of a testcase element
StatusChildren(node) ==
    LET I == {i \in 1..Len(node.children) : node.children[i].tag \in MsgTags}
        RECURSIVE Pick(_)
        Pick(J) == IF J = {} THEN <<>>
                   ELSE <<node.children[Min(J)]>> \o Pick(J \ {Min(J)})
    IN  Pick(I)

-----------------------------------------------------------------------------
\* C1: Round-trip of message data.  When the output has been written, for
\* every test case of a report parsed without an exception whose first
\* child is a failure, error or skipped element with message X and text Y,
\* the file entry of its path holds a test case of its name with a message
\* element of the child's tag, message X ('' when absent) and text Y.
C1_MessageRoundTrip ==
    pc = "exit0" =>
        \A i \in 1..Len(AllAttributed) :
            LET e == AllAttributed[i]
            IN  (Len(e.node.children) > 0 /\ e.node.children[1].tag \in MsgTags) =>
                    \E t \in 1..Len(OutCasesAt(e.path)) :
                        LET tc == OutCasesAt(e.path)[t]
                        IN  /\ AttrGet(tc, "name") = e.name
                            /\ \E m \in 1..Len(tc.children) :
                                  /\ tc.children[m].tag = e.node.children[1].tag
                                  /\ AttrGet(tc.children[m], "message")
                                        = OrEmpty(AttrGet(e.node.children[1], "message"))
                                  /\ tc.children[m].text = OrEmpty(e.node.children[1].text)

\* C2: Continue-on-error.  The run never ends in an uncaught exception, and
\* when the report files visited are malformed or valid, the run that has
\* ended has written exactly the test cases of the valid ones.
C2_ContinueOnError ==
    /\ pc # "crash"
    /\ (pc = "exit0"
            /\ \A k \in 1..Len(visited) :
                  visited[k].matches => (~visited[k].wellformed \/ Valid(visited[k])))
        => OutputIsValidReports

\* C3: No partial results from a failed file.  The written output holds the
\* test cases of the report files parsed without an exception and nothing
\* else: no test case and no file entry comes from a file whose parsing
\* raised.
C3_NoPartialResults == pc = "exit0" => OutputIsValidReports

\* C4: Aggregation merge.  The aggregated mapping has one group for a path;
\* the group of the path p holds every test case the files parsed so far
\* attribute to p, as many times as they do; and a test case of the group of
\* p is one a visited file attributes to p.
C4_AggregationMerge ==
    /\ \A i, j \in 1..Len(sonarTestExcutions) :
          sonarTestExcutions[i].key = sonarTestExcutions[j].key => i = j
    /\ \A i \in 1..Len(sonarTestExcutions) :
          sonarTestExcutions[i].value.file_path = sonarTestExcutions[i].key
    /\ \A i \in 1..Len(AllAttributed) :
          /\ HasKey(sonarTestExcutions, AllAttributed[i].path)
          /\ Cardinality({t \in 1..Len(DictGet(sonarTestExcutions,
                                               AllAttributed[i].path).test_cases) :
                 DictGet(sonarTestExcutions, AllAttributed[i].path).test_cases[t].name
                     = AllAttributed[i].name})
               >= ExpectedCount(AllAttributed[i].path, AllAttributed[i].name)
    /\ \A i \in 1..Len(sonarTestExcutions) :
          \A t \in 1..Len(sonarTestExcutions[i].value.test_cases) :
              \E k \in 1..Len(visited) : \E a \in 1..Len(Attributed(visited[k])) :
                  /\ Attributed(visited[k])[a].path = sonarTestExcutions[i].key
                  /\ Attributed(visited[k])[a].name
                        = sonarTestExcutions[i].value.test_cases[t].name

\* C6: JUnit duration and count.  When a junit run has ended, every testcase
\* element with a file attribute of a valid report visited has its entries
\* in the output: under the file entry of its file attribute there are as
\* many test cases named classname.name with the duration floor(t * 1000)
\* as the valid reports hold, and none of them has a message element unless
\* the testcase has a status child.
C6_JUnitDuration ==
    (Ended /\ args.report_type = "junit") =>
        \A i \in 1..Len(AllAttributed) :
            LET e == AllAttributed[i]
                out == OutCasesAt(e.path)
            IN  e.path # None =>
                    /\ CountNamed(out, e.name) = ExpectedCount(e.path, e.name)
                    /\ \E t \in 1..Len(out) :
                          /\ AttrGet(out[t], "name") = e.name
                          /\ AttrGet(out[t], "duration") = Duration(AttrGet(e.node, "time"))
                          /\ StatusChildren(e.node) = <<>> => out[t].children = <<>>

\* C8: Absent file key.  When a junit run that visited a valid report with
\* a testcase without file attribute has ended, it has ended normally and
\* one file entry of the output holds the test cases without file attribute.
C8_AbsentFileKey ==
    (Ended /\ args.report_type = "junit"
        /\ \E i \in 1..Len(AllAttributed) : AllAttributed[i].path = None) =>
        /\ pc = "exit0"
        /\ \E j \in 1..Len(OutFiles) :
              \A i \in 1..Len(AllAttributed) :
                  AllAttributed[i].path = None =>
                      CountNamed(OutFiles[j].children, AllAttributed[i].name) >= 1

\* C9: Message selection.  When the output has been written, a test case of
\* a valid report is written with a message element built from its first
\* failure, error or skipped child, whatever other children precede it, and
\* with no message element when it has no such child.
C9_MessageSelection ==
    pc = "exit0" =>
        \A i \in 1..Len(AllAttributed) :
            LET e == AllAttributed[i]
                st == StatusChildren(e.node)
            IN  \E t \in 1..Len(OutCasesAt(e.path)) :
                    LET tc == OutCasesAt(e.path)[t]
                    IN  /\ AttrGet(tc, "name") = e.name
                        /\ IF st = <<>> THEN tc.children = <<>>
                           ELSE /\ Len(tc.children) = 1
                                /\ tc.children[1].tag = st[1].tag
                                /\ tc.children[1].text = OrEmpty(st[1].text)

\* C10: Source index key.  After a source file whose name matches has been
\* scanned, every line of it that declares TEST(Arg1, Arg2) has its key
\* 'Arg1.Arg2' in the source index, mapped to the path of the file.
C10_SourceIndexKey ==
    (pc = "src_walk" /\ scanned # <<>> /\ Last(scanned).matches) =>
        \A i \in 1..Len(Last(scanned).lines) :
            LET l == Last(scanned).lines[i]
            IN  l.arg1 # None =>
                    /\ HasKey(test_name_to_source_name, FormatName(l.arg1, l.arg2))
                    /\ DictGet(test_name_to_source_name, FormatName(l.arg1, l.arg2))
                          = Last(scanned).file_path

-----------------------------------------------------------------------------
\* C5: Gtest lookup miss.  When a gtest run has written its output: a test
\* case of a visited report whose qualified name has no entry in the source
\* index is in no file entry of the output; a test case of a valid report
\* whose name is in the index is in the file entry of the path the index
\* gives, once for each of its occurrences in the valid reports, and in no
\* other file entry.
C5_LookupMiss ==
    (pc = "exit0" /\ args.report_type = "gtest") =>
        LET index == test_name_to_source_name
            valid == ValidGtestEntries
            every == Flatten([k \in 1..Len(visited) |-> GtestEntries(visited[k])])
            files == OutFiles
            Expected(n) == Cardinality({i \in 1..Len(valid) : valid[i].name = n})
            Written(j, n) == CountNamed(files[j].children, n)
        IN  /\ \A i \in 1..Len(every) :
                  ~HasKey(index, every[i].name) =>
                      \A j \in 1..Len(files) : Written(j, every[i].name) = 0
            /\ \A i \in 1..Len(valid) :
                  HasKey(index, valid[i].name) =>
                      \E j \in 1..Len(files) :
                          /\ AttrGet(files[j], "path") = DictGet(index, valid[i].name)
                          /\ Written(j, valid[i].name) >= Expected(valid[i].name)
                          /\ \A h \in 1..Len(files) : h # j => Written(h, valid[i].name) = 0

\* a written gtest run one report of which holds both a test case missing
\* from the index and one the index knows
C5_Witness ==
    /\ pc = "exit0" /\ args.report_type = "gtest"
    /\ \E k \in 1..Len(visited) :
          /\ ValidGtest(visited[k])
          /\ \E i, j \in 1..Len(GtestEntries(visited[k])) :
                /\ ~HasKey(test_name_to_source_name, GtestEntries(visited[k])[i].name)
                /\ HasKey(test_name_to_source_name, GtestEntries(visited[k])[j].name)

\* C7: Fatal configuration error.  A gtest run with one of the two gtest
\* options missing is at its start or has exited with status 1, and has
\* scanned no source file, parsed no report file, built nothing and has not
\* opened the output file.
C7_FatalConfig ==
    (args.report_type = "gtest"
        /\ (args.gtest_src_folder = None \/ args.gtest_src_pattern = None)) =>
        /\ pc \in {"main", "exit1"}
        /\ scanned = <<>>
        /\ visited = <<>>
        /\ test_name_to_source_name = <<>>
        /\ sonarTestExcutions = <<>>
        /\ output = NotOpened

\* the run has exited with status 1 with exactly one of the options missing
C7_Witness ==
    /\ pc = "exit1"
    /\ args.report_type = "gtest"
    /\ args.gtest_src_folder = None
    /\ args.gtest_src_pattern # None

====
